---- MODULE Spec2Model ----
(***************************************************************************)
(* A model of the serverless function api/ideas.ts: one request handler    *)
(* that validates a user profile, calls a text generator once, parses the  *)
(* generator's output and post-processes it (sanitizeText, clampIdea,      *)
(* ensureDistinct) before answering.  Two variants of the handler exist in *)
(* the repository: src/api/ideas.ts ("full", with post-processing) and     *)
(* src/unnamed/part_000 ("simple", which only clamps difficulty and        *)
(* worthiness).                                                            *)
(*                                                                         *)
(* Strings are sequences of UTF-16 code units, each written as a one       *)
(* character TLA+ string; a code point outside ASCII is written by its     *)
(* name ("U+2014" is the em dash, "U+1F680" a rocket emoji).               *)
(*                                                                         *)
(* JSON values are records [t |-> tag, v |-> payload]:                     *)
(*   "undefined", "null"          payload 0                                *)
(*   "bool"                       payload TRUE / FALSE                     *)
(*   "num"                        payload an integer count of thousandths  *)
(*   "NaN"                        payload 0 (a number that is no number)   *)
(*   "str"                        payload a sequence of characters         *)
(*   "arr"                        payload a sequence of JSON values        *)
(*   "obj"                        payload a function from keys to values   *)
(***************************************************************************)
EXTENDS Integers, Sequences, FiniteSets, TLC

VARIABLES variant, pc, req, res, genCalls, genArgs, bodyRead, ai

vars == <<variant, pc, req, res, genCalls, genArgs, bodyRead, ai>>

(***************************************************************************)
(* Characters                                                              *)
(***************************************************************************)
UpperCase == <<"A", "B", "C", "D", "E", "F", "G", "H", "I", "J", "K", "L", "M",
               "N", "O", "P", "Q", "R", "S", "T", "U", "V", "W", "X", "Y", "Z">>

LowerCase == <<"a", "b", "c", "d", "e", "f", "g", "h", "i", "j", "k", "l", "m",
               "n", "o", "p", "q", "r", "s", "t", "u", "v", "w", "x", "y", "z">>

Digits == <<"0", "1", "2", "3", "4", "5", "6", "7", "8", "9">>

Range(f) == {f[i] : i \in DOMAIN f}

\* String.prototype.toLowerCase, one code unit at a time
LowerOf == [c \in Range(UpperCase) |->
              LowerCase[CHOOSE i \in 1..26 : UpperCase[i] = c]]

toLowerCase(c) == IF c \in DOMAIN LowerOf THEN LowerOf[c] ELSE c

\* \w of a JavaScript regular expression without the u flag: [A-Za-z0-9_]
IsWordChar(c) == c \in Range(UpperCase) \cup Range(LowerCase) \cup Range(Digits) \cup {"_"}

\* \s : the white space the samples use
IsSpace(c) == c \in {" ", "\t", "\n"}

\* [\p{Extended_Pictographic}\p{Emoji_Presentation}] : the emoji of the samples
IsEmoji(c) == c \in {"U+1F680", "U+1F600", "U+2728"}

Min(a, b) == IF a < b THEN a ELSE b

Max(a, b) == IF a > b THEN a ELSE b

\* String.prototype.slice(0, n) for n >= 0
slice(s, n) == SubSeq(s, 1, Min(n, Len(s)))

\* String.prototype.trim
RECURSIVE trimStart(_)
trimStart(s) == IF s # <<>> /\ IsSpace(Head(s)) THEN trimStart(Tail(s)) ELSE s

RECURSIVE trimEnd(_)
trimEnd(s) == IF s # <<>> /\ IsSpace(s[Len(s)]) THEN trimEnd(SubSeq(s, 1, Len(s) - 1)) ELSE s

trim(s) == trimEnd(trimStart(s))

(***************************************************************************)
(* sanitizeText                                                            *)
(***************************************************************************)
\* s.replace(/[\p{Extended_Pictographic}\p{Emoji_Presentation}]/gu, "")
stripEmoji(s) == SelectSeq(s, LAMBDA c : ~IsEmoji(c))

\* the least element of a non-empty set of integers
least(S) == CHOOSE x \in S : \A y \in S : x <= y

\* s.replace(/\s+/g, " ") : every maximal run of white space becomes one
\* space: the first character of a run is kept, as a space, the rest dropped
compressSpaces(s) ==
  LET keep == SelectSeq([i \in 1..Len(s) |-> i],
                        LAMBDA i : ~IsSpace(s[i]) \/ i = 1 \/ ~IsSpace(s[i - 1]))
  IN [k \in 1..Len(keep) |-> IF IsSpace(s[keep[k]]) THEN " " ELSE s[keep[k]]]

\* The banned list, in the order of the source.  Each entry is word1 \s* word2
\* (word2 empty for a single word), matched case-insensitively.
banned == <<
  [w1 |-> <<"g", "u", "a", "r", "a", "n", "t", "e", "e", "d">>, w2 |-> <<>>],
  [w1 |-> <<"e", "f", "f", "o", "r", "t", "l", "e", "s", "s">>, w2 |-> <<>>],
  [w1 |-> <<"o", "v", "e", "r", "n", "i", "g", "h", "t">>, w2 |-> <<>>],
  [w1 |-> <<"g", "e", "t">>, w2 |-> <<"r", "i", "c", "h">>],
  [w1 |-> <<"n", "o">>, w2 |-> <<"r", "i", "s", "k">>],
  [w1 |-> <<"p", "a", "s", "s", "i", "v", "e">>, w2 |-> <<"i", "n", "c", "o", "m", "e">>],
  [w1 |-> <<"1", "0", "0", "%">>, w2 |-> <<"s", "u", "c", "c", "e", "s", "s">>],
  [w1 |-> <<"s", "e", "c", "r", "e", "t">>, w2 |-> <<"h", "a", "c", "k">>],
  [w1 |-> <<"v", "i", "r", "a", "l">>, w2 |-> <<"o", "v", "e", "r", "n", "i", "g", "h", "t">>] >>

\* the word w stands at position i of s, whatever the case of the letters
wordAt(s, i, w) ==
  /\ i + Len(w) - 1 <= Len(s)
  /\ \A k \in 1..Len(w) : toLowerCase(s[i + k - 1]) = w[k]

\* the first position at or after i that holds no white space
RECURSIVE skipSpaces(_, _)
skipSpaces(s, i) == IF i <= Len(s) /\ IsSpace(s[i]) THEN skipSpaces(s, i + 1) ELSE i

\* length of the match of rx that starts at position i of s, 0 when there is none
matchLen(s, i, rx) ==
  IF ~wordAt(s, i, rx.w1) THEN 0
  ELSE IF rx.w2 = <<>> THEN Len(rx.w1)
  ELSE LET j == skipSpaces(s, i + Len(rx.w1))
       IN IF wordAt(s, j, rx.w2) THEN j + Len(rx.w2) - i ELSE 0

\* s.replace(rx, "") with the g flag: one left-to-right pass that removes the
\* non-overlapping matches; the text left behind is not scanned again
RECURSIVE removeFrom(_, _, _)
removeFrom(s, i, rx) ==
  LET starts == {j \in i..Len(s) : matchLen(s, j, rx) > 0}
  IN IF starts = {} THEN SubSeq(s, i, Len(s))
     ELSE LET j == least(starts)
          IN SubSeq(s, i, j - 1) \o removeFrom(s, j + matchLen(s, j, rx), rx)

RECURSIVE removeBanned(_, _)
removeBanned(s, k) ==
  IF k > Len(banned) THEN s ELSE removeBanned(removeFrom(s, 1, banned[k]), k + 1)

\* s.split(/(?<=\.)\s+/) : cut at every run of white space that follows a "."
RECURSIVE splitFrom(_, _)
splitFrom(s, i) ==
  LET cuts == {j \in i..Len(s) : IsSpace(s[j]) /\ j > 1 /\ s[j - 1] = "."}
  IN IF cuts = {} THEN <<SubSeq(s, i, Len(s))>>
     ELSE LET j == least(cuts)
          IN <<SubSeq(s, i, j - 1)>> \o splitFrom(s, skipSpaces(s, j))

splitSentences(s) == splitFrom(s, 1)

\* Array.prototype.join(" ")
RECURSIVE joinSpace(_)
joinSpace(parts) ==
  IF parts = <<>> THEN <<>>
  ELSE IF Len(parts) = 1 THEN parts[1]
  ELSE parts[1] \o <<" ">> \o joinSpace(Tail(parts))

MaxSentences == 3

sanitizeText(s) ==
  IF s = <<>> THEN s
  ELSE LET noEmoji == stripEmoji(s)
           spaced  == trim(compressSpaces(noEmoji))
           clean   == removeBanned(spaced, 1)
           parts   == splitSentences(clean)
           kept    == SubSeq(parts, 1, Min(MaxSentences, Len(parts)))
       IN trim(joinSpace(kept))

(***************************************************************************)
(* JSON values                                                             *)
(***************************************************************************)
\* numbers are counted in thousandths: Num(5500) is 5.5
Scale == 1000

Undef == [t |-> "undefined", v |-> 0]

Null == [t |-> "null", v |-> 0]

NaN == [t |-> "NaN", v |-> 0]

Bool(b) == [t |-> "bool", v |-> b]

Num(k) == [t |-> "num", v |-> k]

Whole(n) == Num(n * Scale)

Str(s) == [t |-> "str", v |-> s]

Arr(a) == [t |-> "arr", v |-> a]

Obj(f) == [t |-> "obj", v |-> f]

EmptyObj == Obj(<<>>)

\* ToBoolean
Truthy(x) ==
  CASE x.t = "undefined" -> FALSE
    [] x.t = "null" -> FALSE
    [] x.t = "NaN" -> FALSE
    [] x.t = "bool" -> x.v
    [] x.t = "num" -> x.v # 0
    [] x.t = "str" -> x.v # <<>>
    [] OTHER -> TRUE

\* x == null
Nullish(x) == x.t \in {"undefined", "null"}

\* a || b
Or(a, b) == IF Truthy(a) THEN a ELSE b

\* o.k and o?.k : undefined when o has no such property.  (o.k on null or
\* undefined throws; the callers below decide that before they read.)
Get(o, k) == IF o.t = "obj" /\ k \in DOMAIN o.v THEN o.v[k] ELSE Undef

\* o.k = x on an object
Set(o, k, x) == Obj((k :> x) @@ o.v)

\* a[i] with a zero-based index, undefined out of range or on a non-array
At(a, i) == IF a.t = "arr" /\ i + 1 \in DOMAIN a.v THEN a.v[i + 1] ELSE Undef

\* Array.prototype.map
map(a, f(_)) == [i \in DOMAIN a |-> f(a[i])]

\* Array.prototype.slice(0, n)
take(a, n) == SubSeq(a, 1, Min(n, Len(a)))

\* decimal digits of a natural number
RECURSIVE natToStr(_)
natToStr(n) == IF n < 10 THEN <<Digits[n + 1]>>
               ELSE natToStr(n \div 10) \o <<Digits[(n % 10) + 1]>>

\* the digits after the decimal point of f thousandths, trailing zeros dropped
fracToStr(f) ==
  LET d1 == f \div 100
      d2 == (f \div 10) % 10
      d3 == f % 10
  IN IF d3 # 0 THEN <<Digits[d1 + 1], Digits[d2 + 1], Digits[d3 + 1]>>
     ELSE IF d2 # 0 THEN <<Digits[d1 + 1], Digits[d2 + 1]>>
     ELSE <<Digits[d1 + 1]>>

\* Number.prototype.toString
numToStr(k) ==
  LET a == IF k < 0 THEN -k ELSE k
      whole == natToStr(a \div Scale)
      body == IF a % Scale = 0 THEN whole ELSE whole \o <<".">> \o fracToStr(a % Scale)
  IN IF k < 0 THEN <<"-">> \o body ELSE body

\* String(x).  An array is joined with ","; its null and undefined elements
\* are written as nothing.
RECURSIVE String(_)
String(x) ==
  CASE x.t = "str" -> x.v
    [] x.t = "num" -> numToStr(x.v)
    [] x.t = "NaN" -> <<"N", "a", "N">>
    [] x.t = "bool" -> IF x.v THEN <<"t", "r", "u", "e">> ELSE <<"f", "a", "l", "s", "e">>
    [] x.t = "null" -> <<"n", "u", "l", "l">>
    [] x.t = "undefined" -> <<"u", "n", "d", "e", "f", "i", "n", "e", "d">>
    [] x.t = "obj" -> <<"[", "o", "b", "j", "e", "c", "t", " ", "O", "b", "j", "e", "c", "t", "]">>
    [] x.t = "arr" ->
         IF x.v = <<>> THEN <<>>
         ELSE LET h == IF Nullish(x.v[1]) THEN <<>> ELSE String(x.v[1])
              IN IF Len(x.v) = 1 THEN h ELSE h \o <<",">> \o String(Arr(Tail(x.v)))

\* String(x) throws a TypeError: x is an object whose own toString is no
\* function (no value that JSON.parse returns is a function), so that neither
\* it nor Object.prototype.valueOf yields a primitive; or x is an array that
\* holds such an object, which join converts
RECURSIVE stringThrows(_)
stringThrows(x) ==
  \/ x.t = "obj" /\ "toString" \in DOMAIN x.v
  \/ x.t = "arr" /\ \E i \in DOMAIN x.v : stringThrows(x.v[i])

IsDigit(c) == c \in Range(Digits)

digitVal(c) == (CHOOSE i \in 1..10 : Digits[i] = c) - 1

RECURSIVE digitsVal(_)
digitsVal(s) == IF s = <<>> THEN 0
                ELSE digitsVal(SubSeq(s, 1, Len(s) - 1)) * 10 + digitVal(s[Len(s)])

\* StringToNumber on the trimmed text: "" is 0; [-]digits[.d[d[d]]] is its
\* value; every other text of the samples is NaN.  (Exponents, hex and
\* Infinity are not among the samples.)
decimalOf(u, neg, dot) ==
  IF /\ dot > 1
     /\ dot # Len(u)
     /\ Len(u) - dot <= 3
     /\ \A i \in 1..Len(u) : i = dot \/ IsDigit(u[i])
  THEN Num((IF neg THEN -1 ELSE 1)
           * (digitsVal(SubSeq(u, 1, dot - 1)) * Scale
              + digitsVal(SubSeq(SubSeq(u, dot + 1, Len(u)) \o <<"0", "0", "0">>, 1, 3))))
  ELSE NaN

unsignedOf(u, neg) ==
  decimalOf(u, neg, IF \E i \in 1..Len(u) : u[i] = "."
                    THEN least({i \in 1..Len(u) : u[i] = "."}) ELSE Len(u) + 1)

trimmedToNum(s) ==
  IF s = <<>> THEN Num(0)
  ELSE IF Head(s) = "-" THEN unsignedOf(Tail(s), TRUE)
  ELSE unsignedOf(s, FALSE)

strToNum(s) == trimmedToNum(trim(s))

\* Number(x)
RECURSIVE Number(_)
Number(x) ==
  CASE x.t = "num" -> x
    [] x.t = "NaN" -> x
    [] x.t = "undefined" -> NaN
    [] x.t = "null" -> Num(0)
    [] x.t = "bool" -> IF x.v THEN Whole(1) ELSE Num(0)
    [] x.t = "str" -> strToNum(x.v)
    [] x.t = "obj" -> NaN
    [] x.t = "arr" -> strToNum(String(x))

\* Math.min(hi, Math.max(lo, x)) for a number x that is not NaN
minMax(lo, hi, x) == Num(Min(hi * Scale, Max(lo * Scale, x.v)))

\* Math.min(10, Math.max(1, Number(x) || 1))
clampScore(x) == minMax(1, 10, Or(Number(x), Whole(1)))

\* Number(x.toFixed(2)) : the nearest hundredth, a tie going away from zero
toFixed2(k) ==
  LET a == IF k < 0 THEN -k ELSE k
      r == ((a + 5) \div 10) * 10
  IN IF k < 0 THEN -r ELSE r

\* Math.round(x) : the nearest integer, a tie going up
mathRound(k) == ((k + Scale \div 2) \div Scale) * Scale

(***************************************************************************)
(* clampIdea                                                               *)
(***************************************************************************)
EmptyStr == Str(<<>>)

\* sanitizeText(String(x || "")).slice(0, cap)
cleanStr(x, cap) == Str(slice(sanitizeText(String(Or(x, EmptyStr))), cap))

\* sanitizeText applied to a raw array element (validation, risks): a falsy
\* element is returned as it is, a string is sanitized.  A truthy element that
\* is no string has no replace method: see sanitizeThrows.
sanitizeRaw(x) == IF ~Truthy(x) THEN x ELSE Str(sanitizeText(x.v))

sanitizeThrows(x) == Truthy(x) /\ x.t # "str"

clampSection(sec) ==
  Obj([heading |-> Str(sanitizeText(String(Or(Get(sec, "heading"), EmptyStr)))),
       body |-> cleanStr(Get(sec, "body"), 550)])

clampStep(s) == cleanStr(s, 140)

clampTool(tl) ==
  Obj([name |-> cleanStr(Get(tl, "name"), 40),
       use |-> cleanStr(Get(tl, "use"), 120),
       estMonthly |-> IF Get(tl, "estMonthly").t = "num"
                      THEN Num(toFixed2(Get(tl, "estMonthly").v)) ELSE Num(0)])

\* for (const k of [...]) if (typeof n[k] === "number") n[k] = Number(n[k].toFixed(2))
RECURSIVE roundKeys(_, _)
roundKeys(n, keys) ==
  IF keys = <<>> THEN n
  ELSE LET k == Head(keys)
           m == IF Get(n, k).t = "num" THEN Set(n, k, Num(toFixed2(Get(n, k).v))) ELSE n
       IN roundKeys(m, Tail(keys))

clampNumbers(n) ==
  LET r == roundKeys(n, <<"price", "cogs", "marginPct", "startupCost", "monthlyCost">>)
  IN IF Get(r, "breakEvenCustomers").t = "num"
     THEN Set(r, "breakEvenCustomers",
              Num(Max(0, mathRound(Get(r, "breakEvenCustomers").v))))
     ELSE r

clampKpis(k) ==
  Set(Set(Set(k, "week1", cleanStr(Get(k, "week1"), 120)),
                 "month1", cleanStr(Get(k, "month1"), 140)),
                 "quarter1", cleanStr(Get(k, "quarter1"), 160))

\* the statements of the if (idea?.insights) block, one after the other
clampFeasibility(ins) == Set(ins, "feasibility", cleanStr(Get(ins, "feasibility"), 240))

clampInsNumbers(ins) ==
  IF Truthy(Get(ins, "numbers")) /\ Get(ins, "numbers").t = "obj"
  THEN Set(ins, "numbers", clampNumbers(Get(ins, "numbers"))) ELSE ins

clampValidation(ins) ==
  IF Get(ins, "validation").t = "arr"
  THEN Set(ins, "validation", Arr(take(map(Get(ins, "validation").v, sanitizeRaw), 3)))
  ELSE ins

clampRisks(ins) ==
  IF Get(ins, "risks").t = "arr"
  THEN Set(ins, "risks", Arr(take(map(Get(ins, "risks").v, sanitizeRaw), 3)))
  ELSE ins

clampTooling(ins) ==
  IF Get(ins, "tooling").t = "arr"
  THEN Set(ins, "tooling", Arr(take(map(Get(ins, "tooling").v, clampTool), 6)))
  ELSE ins

\* kpis that is an array gets the three properties, which JSON.stringify does
\* not write: it is returned as it came
clampInsKpis(ins) ==
  IF Truthy(Get(ins, "kpis")) /\ Get(ins, "kpis").t = "obj"
  THEN Set(ins, "kpis", clampKpis(Get(ins, "kpis"))) ELSE ins

clampInsights(ins) ==
  clampInsKpis(clampTooling(clampRisks(clampValidation(clampInsNumbers(
    clampFeasibility(ins))))))

\* the statements of clampIdea, one after the other
clampHead(idea) ==
  Set(Set(Set(Set(idea, "title", cleanStr(Get(idea, "title"), 70)),
                        "tagline", cleanStr(Get(idea, "tagline"), 120)),
                        "difficulty", clampScore(Get(idea, "difficulty"))),
                        "worthiness", clampScore(Get(idea, "worthiness")))

clampSections(idea) ==
  IF Get(idea, "sections").t = "arr"
  THEN Set(idea, "sections", Arr(take(map(Get(idea, "sections").v, clampSection), 10)))
  ELSE idea

clampSteps(idea) ==
  IF Get(idea, "firstThreeSteps").t = "arr"
  THEN Set(idea, "firstThreeSteps",
           Arr(take(map(Get(idea, "firstThreeSteps").v, clampStep), 3)))
  ELSE idea

\* insights that is an array gets properties JSON.stringify does not write
clampIdeaInsights(idea) ==
  IF Truthy(Get(idea, "insights")) /\ Get(idea, "insights").t = "obj"
  THEN Set(idea, "insights", clampInsights(Get(idea, "insights")))
  ELSE idea

\* clampIdea of an idea that is an object and on which clampThrows is false
clampIdea(idea) == clampIdeaInsights(clampSteps(clampSections(clampHead(idea))))

\* a String(...) call of clampIdea on a field of x throws
fieldThrows(x, keys) == \E k \in keys : stringThrows(Get(x, k))

\* some element of the array a (of no element when a is no array) has a field
\* among keys on which String(...) throws
elementThrows(a, keys) ==
  a.t = "arr" /\ \E i \in DOMAIN a.v : fieldThrows(a.v[i], keys)

\* a property is assigned to x, which is truthy and a primitive: the module is
\* strict code, the assignment throws
assignThrows(x) == Truthy(x) /\ x.t \notin {"obj", "arr"}

\* the if (idea?.insights) block throws
insightsThrow(ins) ==
  \/ assignThrows(ins)
  \/ /\ ins.t = "obj"
     /\ \/ fieldThrows(ins, {"feasibility"})
        \/ /\ Get(ins, "validation").t = "arr"
           /\ \E i \in DOMAIN Get(ins, "validation").v :
                 sanitizeThrows(Get(ins, "validation").v[i])
        \/ /\ Get(ins, "risks").t = "arr"
           /\ \E i \in DOMAIN Get(ins, "risks").v :
                 sanitizeThrows(Get(ins, "risks").v[i])
        \/ elementThrows(Get(ins, "tooling"), {"name", "use"})
        \/ assignThrows(Get(ins, "kpis"))
        \/ fieldThrows(Get(ins, "kpis"), {"week1", "month1", "quarter1"})

\* The cases in which clampIdea throws a TypeError: the idea is no object (a
\* property of null is read, or, the module being strict code, a property of a
\* primitive is assigned); String(...) is applied to an object that has no
\* string form; insights or kpis is truthy and a primitive; an entry of
\* validation or risks is truthy and no string.  (An idea that is an array is
\* not among the inputs.)
clampThrows(idea) ==
  \/ idea.t # "obj"
  \/ fieldThrows(idea, {"title", "tagline"})
  \/ elementThrows(Get(idea, "sections"), {"heading", "body"})
  \/ /\ Get(idea, "firstThreeSteps").t = "arr"
     /\ \E i \in DOMAIN Get(idea, "firstThreeSteps").v :
           stringThrows(Get(idea, "firstThreeSteps").v[i])
  \/ insightsThrow(Get(idea, "insights"))

(***************************************************************************)
(* isTooSimilar, ensureDistinct                                            *)
(***************************************************************************)
\* new Set(a.toLowerCase().split(/\W+/).filter(Boolean))
\* the maximal runs of word characters of the text, in lower case
tokens(s) ==
  LET starts == {i \in 1..Len(s) : IsWordChar(s[i]) /\ (i = 1 \/ ~IsWordChar(s[i - 1]))}
      ends == {j \in 1..Len(s) : IsWordChar(s[j]) /\ (j = Len(s) \/ ~IsWordChar(s[j + 1]))}
      word(i) == SubSeq(s, i, least({j \in ends : j >= i}))
  IN {[k \in 1..Len(word(i)) |-> toLowerCase(word(i)[k])] : i \in starts}

\* overlap / denom, as the pair <<overlap, denom>>
overlapRatio(a, b) ==
  LET tokensA == tokens(a)
      tokensB == tokens(b)
  IN <<Cardinality(tokensA \cap tokensB),
       Max(1, Min(Cardinality(tokensA), Cardinality(tokensB)))>>

\* a faulty comparison that takes a ratio of exactly 0.6 for a collision: the
\* property of C13 must reject it
atLeastSixty(a, b) ==
  LET r == overlapRatio(a, b) IN 10 * r[1] >= 6 * r[2]

\* overlap / denom > 0.6, in integers: 10 * overlap > 6 * denom
isTooSimilar(a, b) ==
  LET r == overlapRatio(a, b) IN 10 * r[1] > 6 * r[2]

AltSuffix == <<" ", "U+2014", " ", "A", "l", "t">>

\* ideas[i].title, a string once clampIdea has run
titleOf(idea) == String(Or(Get(idea, "title"), EmptyStr))

\* ideas[i].sections?.[1]?.body || "", for sections that is an array or a
\* primitive
secondBody(idea) == String(Or(Get(At(Get(idea, "sections"), 1), "body"), EmptyStr))

\* the body of the two loops of ensureDistinct for the pair (i, j)
distinctStep(ideas, i, j) ==
  IF \/ isTooSimilar(titleOf(ideas[i]), titleOf(ideas[j]))
     \/ isTooSimilar(secondBody(ideas[i]), secondBody(ideas[j]))
  THEN [ideas EXCEPT ![j] =
          Set(ideas[j], "title",
              Str(String(Or(Get(ideas[j], "title"), Str(<<"I", "d", "e", "a">>)))
                  \o AltSuffix))]
  ELSE ideas

\* for (i = 0 ..) for (j = i + 1 ..), with indices from 1
RECURSIVE distinctLoop(_, _, _)
distinctLoop(ideas, i, j) ==
  IF i > Len(ideas) THEN ideas
  ELSE IF j > Len(ideas) THEN distinctLoop(ideas, i + 1, i + 2)
  ELSE distinctLoop(distinctStep(ideas, i, j), i, j + 1)

ensureDistinct(ideas) == distinctLoop(ideas, 1, 2)

(***************************************************************************)
(* JSON.parse                                                              *)
(*                                                                         *)
(* A parser of JSON texts: objects, arrays, strings with the escapes       *)
(* \" \\ \/ \n \t, numbers without exponent, true, false, null, white      *)
(* space.  A result is [ok, val, next]: whether a value was read, the      *)
(* value, and the position after it.  The texts of this model use no \u    *)
(* escape, no exponent and at most three decimals.                         *)
(***************************************************************************)
ParseFail == [ok |-> FALSE, val |-> Undef, next |-> 0]

Parsed(x, n) == [ok |-> TRUE, val |-> x, next |-> n]

\* the key of an object member, as a TLA+ string
RECURSIVE charsToKey(_)
charsToKey(s) == IF s = <<>> THEN "" ELSE Head(s) \o charsToKey(Tail(s))

\* the text s[i..] stands at position i
literalAt(s, i, w) ==
  /\ i + Len(w) - 1 <= Len(s)
  /\ \A k \in 1..Len(w) : s[i + k - 1] = w[k]

\* a character that ends a run of plain characters of a string literal
IsSpecial(c) == c \in {"\"", "\\", "\n", "\t"}

\* the first position at or after i that holds a special character, or
\* Len(s) + 1; sixteen plain characters are passed at a time
RECURSIVE nextSpecial(_, _)
nextSpecial(s, i) ==
  IF i > Len(s) THEN i
  ELSE IF i + 15 <= Len(s) /\ \A k \in i..(i + 15) : ~IsSpecial(s[k])
       THEN nextSpecial(s, i + 16)
  ELSE IF IsSpecial(s[i]) THEN i
  ELSE nextSpecial(s, i + 1)

\* a string, read from the position after its opening quote; stringAt is
\* the step at the next special character j
RECURSIVE parseString(_, _, _)
RECURSIVE stringAt(_, _, _)
stringAt(s, j, got) ==
  IF j > Len(s) THEN ParseFail
  ELSE IF s[j] = "\"" THEN Parsed(Str(got), j + 1)
  ELSE IF s[j] \in {"\n", "\t"} THEN ParseFail
  ELSE IF j + 1 > Len(s) THEN ParseFail
  ELSE IF s[j + 1] \in {"\"", "\\", "/"} THEN parseString(s, j + 2, Append(got, s[j + 1]))
  ELSE IF s[j + 1] = "n" THEN parseString(s, j + 2, Append(got, "\n"))
  ELSE IF s[j + 1] = "t" THEN parseString(s, j + 2, Append(got, "\t"))
  ELSE ParseFail

plainRun(s, i, acc, j) == stringAt(s, j, acc \o SubSeq(s, i, j - 1))

parseString(s, i, acc) == plainRun(s, i, acc, nextSpecial(s, i))

\* the first position at or after i that holds no digit
RECURSIVE skipDigits(_, _)
skipDigits(s, i) == IF i <= Len(s) /\ IsDigit(s[i]) THEN skipDigits(s, i + 1) ELSE i

\* the number whose integer part is s[a..b-1] and whose fraction, if any, is
\* s[b+1..c-1]
magnitudeOf(s, a, b, c) ==
  digitsVal(SubSeq(s, a, b - 1)) * Scale
  + digitsVal(SubSeq(SubSeq(s, b + 1, c - 1) \o <<"0", "0", "0">>, 1, 3))

signed(neg, m) == Num(IF neg THEN -m ELSE m)

\* -? (0 | [1-9][0-9]*) (\. [0-9]+)? : a the first digit, b the end of the
\* integer part, c the end of the number
numberEnd(s, i, a, b, c) ==
  IF \/ b = a
     \/ (b - a > 1 /\ s[a] = "0")
     \/ (c > b /\ c = b + 1)
  THEN ParseFail
  ELSE Parsed(signed(s[i] = "-", magnitudeOf(s, a, b, c)), c)

numberFraction(s, i, a, b) ==
  numberEnd(s, i, a, b, IF b <= Len(s) /\ s[b] = "." THEN skipDigits(s, b + 1) ELSE b)

numberInteger(s, i, a) == numberFraction(s, i, a, skipDigits(s, a))

parseNumber(s, i) == numberInteger(s, i, IF s[i] = "-" THEN i + 1 ELSE i)

\* the value of a text that holds no bracket, comma or colon outside its
\* strings: a string, a number, true, false or null, read from the position a
scalarAt(s, a) ==
  IF s[a] = "\"" THEN parseString(s, a + 1, <<>>)
  ELSE IF literalAt(s, a, <<"t", "r", "u", "e">>) THEN Parsed(Bool(TRUE), a + 4)
  ELSE IF literalAt(s, a, <<"f", "a", "l", "s", "e">>) THEN Parsed(Bool(FALSE), a + 5)
  ELSE IF literalAt(s, a, <<"n", "u", "l", "l">>) THEN Parsed(Null, a + 4)
  ELSE IF s[a] = "-" \/ IsDigit(s[a]) THEN parseNumber(s, a)
  ELSE ParseFail

\* the result r, if it ends at the position b
endsAt(b, r) == IF r.ok /\ r.next = b + 1 THEN r ELSE ParseFail

\* the last position at or before i that holds no white space, or 0
RECURSIVE skipSpacesBack(_, _)
skipSpacesBack(s, i) == IF i >= 1 /\ IsSpace(s[i]) THEN skipSpacesBack(s, i - 1) ELSE i

\* a sequence, a function, with its elements evaluated once
tuple(f) == f \o <<>>

mapping(f) == f @@ <<>>

\* the number of backslashes that stand right before the position i
RECURSIVE backslashesBefore(_, _)
backslashesBefore(s, i) ==
  IF i > 1 /\ s[i - 1] = "\\" THEN 1 + backslashesBefore(s, i - 1) ELSE 0

\* the positions of the quotes that open or close a string, in order
quotesOf(s) ==
  SelectSeq([i \in 1..Len(s) |-> i],
            LAMBDA i : s[i] = "\"" /\ backslashesBefore(s, i) % 2 = 0)

\* the positions that strings cover, their quotes included; a string that
\* is not closed covers the rest of the text
stringPositions(s, q) ==
  UNION {q[2 * k - 1]..(IF 2 * k <= Len(q) THEN q[2 * k] ELSE Len(s)) :
           k \in 1..((Len(q) + 1) \div 2)}

Brackets == {"{", "}", "[", "]"}

\* the positions of the brackets, commas and colons outside the strings
marksOf(s, covered) ==
  SelectSeq([i \in 1..Len(s) |-> i],
            LAMBDA i : s[i] \in Brackets \cup {",", ":"} /\ i \notin covered)

\* what a run of marks adds to the nesting depth
rise(kinds) ==
  Len(SelectSeq(kinds, LAMBDA c : c \in {"{", "["}))
  - Len(SelectSeq(kinds, LAMBDA c : c \in {"}", "]"}))

\* the nesting depth at each mark of a run that starts at the depth base:
\* for a bracket, the depth inside it
RECURSIVE levelsOf(_, _)
levelsOfHalves(left, right, base) ==
  levelsOf(left, base) \o levelsOf(right, base + rise(left))

levelsOf(kinds, base) ==
  IF Len(kinds) = 0 THEN <<>>
  ELSE IF Len(kinds) = 1 THEN <<base + (IF kinds[1] \in {"{", "["} THEN 1 ELSE 0)>>
  ELSE levelsOfHalves(SubSeq(kinds, 1, Len(kinds) \div 2),
                      SubSeq(kinds, Len(kinds) \div 2 + 1, Len(kinds)), base)

\* the marks of a text and their nesting depths
scanWith(s, marks) ==
  [marks |-> marks, levels |-> levelsOf(tuple([k \in 1..Len(marks) |-> s[marks[k]]]), 0)]

scan(s) == scanWith(s, marksOf(s, stringPositions(s, quotesOf(s))))

\* the text s[a..b] is all of an array or an object: its marks are i..j,
\* the first and the last are its brackets, and no mark between them closes
\* it or stands outside it
isContainer(s, sc, a, b, i, j) ==
  /\ i < j
  /\ sc.marks[i] = a /\ sc.marks[j] = b
  /\ (s[a] = "[" /\ s[b] = "]") \/ (s[a] = "{" /\ s[b] = "}")
  /\ sc.levels[i] = sc.levels[j]
  /\ \A k \in (i + 1)..(j - 1) :
        \/ sc.levels[k] > sc.levels[i]
        \/ sc.levels[k] = sc.levels[i] /\ s[sc.marks[k]] \in {",", ":"}

\* the marks that bound the elements of the container with the marks i..j:
\* its brackets and the commas of its own depth
separators(s, sc, i, j) ==
  <<i>>
  \o SelectSeq([k \in 1..(j - i - 1) |-> i + k],
               LAMBDA k : s[sc.marks[k]] = "," /\ sc.levels[k] = sc.levels[i])
  \o <<j>>

\* nothing but white space stands between the brackets i and j
isEmptyInside(s, sc, i, j) ==
  j = i + 1 /\ skipSpaces(s, sc.marks[i] + 1) = sc.marks[j]

RECURSIVE parseValue(_, _, _, _, _, _)

\* the elements of an array whose separators are seps
parseElements(s, sc, seps) ==
  tuple([c \in 1..(Len(seps) - 1) |->
           parseValue(s, sc, sc.marks[seps[c]] + 1, sc.marks[seps[c + 1]] - 1,
                      seps[c] + 1, seps[c + 1] - 1)])

arrayOf(es, next) ==
  IF \A c \in DOMAIN es : es[c].ok
  THEN Parsed(Arr(tuple([c \in DOMAIN es |-> es[c].val])), next)
  ELSE ParseFail

\* a key: a string that is all of s[a..b] but for white space
keyAt(s, a, b) ==
  IF a <= b /\ s[a] = "\"" THEN endsAt(b, parseString(s, a + 1, <<>>)) ELSE ParseFail

NoMember == [ok |-> FALSE, key |-> "", val |-> Undef]

memberOf(k, e) ==
  IF k.ok /\ e.ok THEN [ok |-> TRUE, key |-> charsToKey(k.val.v), val |-> e.val]
  ELSE NoMember

\* the member in s[a..b], whose marks are i..j: the first of them is its colon
parseMember(s, sc, a, b, i, j) ==
  IF i <= j /\ s[sc.marks[i]] = ":"
  THEN memberOf(keyAt(s, skipSpaces(s, a), skipSpacesBack(s, sc.marks[i] - 1)),
                parseValue(s, sc, sc.marks[i] + 1, b, i + 1, j))
  ELSE NoMember

\* the members of an object whose separators are seps
parseMembers(s, sc, seps) ==
  tuple([c \in 1..(Len(seps) - 1) |->
           parseMember(s, sc, sc.marks[seps[c]] + 1, sc.marks[seps[c + 1]] - 1,
                       seps[c] + 1, seps[c + 1] - 1)])

\* the last member with the key k: a key that comes twice keeps its last
\* value
lastWith(ms, k) ==
  CHOOSE c \in DOMAIN ms : ms[c].key = k /\ \A d \in DOMAIN ms : d > c => ms[d].key # k

objectOf(ms, next) ==
  IF \A c \in DOMAIN ms : ms[c].ok
  THEN Parsed(Obj(mapping([k \in {ms[c].key : c \in DOMAIN ms} |-> ms[lastWith(ms, k)].val])),
              next)
  ELSE ParseFail

\* the array or the object whose marks are i..j
containerAt(s, sc, i, j) ==
  IF s[sc.marks[i]] = "["
  THEN IF isEmptyInside(s, sc, i, j) THEN Parsed(Arr(<<>>), sc.marks[j] + 1)
       ELSE arrayOf(parseElements(s, sc, separators(s, sc, i, j)), sc.marks[j] + 1)
  ELSE IF isEmptyInside(s, sc, i, j) THEN Parsed(EmptyObj, sc.marks[j] + 1)
       ELSE objectOf(parseMembers(s, sc, separators(s, sc, i, j)), sc.marks[j] + 1)

\* the value that is all of s[a..b], where a and b hold no white space and
\* the marks of s[a..b] are i..j
parseValueAt(s, sc, a, b, i, j) ==
  IF a > b THEN ParseFail
  ELSE IF i > j THEN endsAt(b, scalarAt(s, a))
  ELSE IF isContainer(s, sc, a, b, i, j) THEN containerAt(s, sc, i, j)
  ELSE ParseFail

\* the value that is all of s[a..b] but for white space
parseValue(s, sc, a, b, i, j) ==
  parseValueAt(s, sc, skipSpaces(s, a), skipSpacesBack(s, b), i, j)

parseWith(text, sc) == parseValue(text, sc, 1, Len(text), 1, Len(sc.marks))

\* the text is one value
wholeText(r) ==
  IF r.ok THEN [ok |-> TRUE, val |-> r.val] ELSE [ok |-> FALSE, val |-> Undef]

\* JSON.parse(text): the value, or a SyntaxError when the text is no JSON
\* value
JSONparse(text) == wholeText(parseWith(text, scan(text)))

(***************************************************************************)
(* The handler: request, response, messages                                *)
(***************************************************************************)
ALLOW_ORIGIN == <<"*">>

\* a faulty handler that leaves out the second setHeader call: the property of
\* C9 must reject it
corsHeadersWithoutMethods ==
  [AccessControlAllowOrigin |-> ALLOW_ORIGIN,
   AccessControlAllowHeaders |-> <<"C", "o", "n", "t", "e", "n", "t", "-", "T", "y", "p", "e">>]

\* the three res.setHeader calls that open the handler
corsHeaders ==
  [AccessControlAllowOrigin |-> ALLOW_ORIGIN,
   AccessControlAllowMethods |-> <<"P", "O", "S", "T", ",", " ", "O", "P", "T", "I", "O", "N", "S">>,
   AccessControlAllowHeaders |-> <<"C", "o", "n", "t", "e", "n", "t", "-", "T", "y", "p", "e">>]

MethodNotAllowed == <<"M", "e", "t", "h", "o", "d", " ", "n", "o", "t", " ", "a", "l", "l", "o", "w", "e", "d">>

MissingRequiredFields == <<"M", "i", "s", "s", "i", "n", "g", " ", "r", "e", "q", "u", "i", "r", "e", "d", " ", "f", "i", "e", "l", "d", "s">>

InvalidNotJson == <<"I", "n", "v", "a", "l", "i", "d", " ", "m", "o", "d", "e", "l", " ", "o", "u", "t", "p", "u", "t", " ", "(", "n", "o", "t", " ", "J", "S", "O", "N", ")">>

InvalidModelOutput == <<"I", "n", "v", "a", "l", "i", "d", " ", "m", "o", "d", "e", "l", " ", "o", "u", "t", "p", "u", "t">>

ExpectedIdeas == <<"E", "x", "p", "e", "c", "t", "e", "d", " ", "U+0060", "i", "d", "e", "a", "s", "U+0060", " ", "a", "r", "r", "a", "y", " ", "w", "i", "t", "h", " ", "e", "x", "a", "c", "t", "l", "y", " ", "3", " ", "i", "t", "e", "m", "s", ".">>

InvocationFailed == <<"F", "U", "N", "C", "T", "I", "O", "N", "_", "I", "N", "V", "O", "C", "A", "T", "I", "O", "N", "_", "F", "A", "I", "L", "E", "D">>

\* An exception is [name, message], both texts.  The message of a SyntaxError
\* or TypeError is the engine's; the model keeps one text for each.
SyntaxError == [name |-> <<"S", "y", "n", "t", "a", "x", "E", "r", "r", "o", "r">>,
                message |-> <<"U", "n", "e", "x", "p", "e", "c", "t", "e", "d", " ", "t", "o", "k", "e", "n", " ", "i", "n", " ", "J", "S", "O", "N">>]

TypeError == [name |-> <<"T", "y", "p", "e", "E", "r", "r", "o", "r">>,
              message |-> <<"C", "a", "n", "n", "o", "t", " ", "r", "e", "a", "d", " ", "p", "r", "o", "p", "e", "r", "t", "i", "e", "s">>]

\* a faulty catch clause that reports err.message alone: the property of C12
\* must reject it
messageOnly(err) == err.message

\* err?.message || String(err)
errDetail(err) == IF err.message # <<>> THEN err.message ELSE err.name

\* a response that has not been written yet: res after the setHeader calls
openResponse == [status |-> 0, headers |-> corsHeaders, body |-> Undef, sent |-> FALSE]

\* the res object the platform hands to the handler
freshResponse == [status |-> 0, headers |-> <<>>, body |-> Undef, sent |-> FALSE]

\* res.status(code).end()
endWith(r, code) == [r EXCEPT !.status = code, !.sent = TRUE]

\* res.status(code).json(body)
jsonWith(r, code, body) == [r EXCEPT !.status = code, !.body = body, !.sent = TRUE]

errorBody(tag) == Obj([error |-> Str(tag)])

errorDetailBody(tag, detail) == Obj([error |-> Str(tag), detail |-> Str(detail)])

\* typeof req.body === "string" ? JSON.parse(req.body) : (req.body || {})
\* as [ok, val]: ok is false when JSON.parse throws
parseBody(b) ==
  IF b.t = "str" THEN JSONparse(b.v) ELSE [ok |-> TRUE, val |-> Or(b, EmptyObj)]

\* const { age, ... } = body throws a TypeError on null (undefined cannot
\* come out of parseBody)
destructureThrows(body) == Nullish(body)

\* the condition of the if that answers 400
missingFields(body) ==
  \/ Nullish(Get(body, "age"))
  \/ ~Truthy(Get(body, "location"))
  \/ ~Truthy(Get(body, "strengths"))
  \/ ~Truthy(Get(body, "enjoys"))
  \/ ~Truthy(Get(body, "skillset"))
  \/ Nullish(Get(body, "hoursPerWeek"))
  \/ Nullish(Get(body, "seedBudget"))

\* the names and codes of the locale test, in lower case
euTokens == <<
  <<"a", "t">>,
  <<"b", "e">>,
  <<"b", "g">>,
  <<"h", "r">>,
  <<"c", "y">>,
  <<"c", "z">>,
  <<"d", "k">>,
  <<"e", "e">>,
  <<"f", "i">>,
  <<"f", "r">>,
  <<"d", "e">>,
  <<"g", "r">>,
  <<"h", "u">>,
  <<"i", "e">>,
  <<"i", "t">>,
  <<"l", "v">>,
  <<"l", "t">>,
  <<"l", "u">>,
  <<"m", "t">>,
  <<"n", "l">>,
  <<"p", "l">>,
  <<"p", "t">>,
  <<"r", "o">>,
  <<"s", "k">>,
  <<"s", "i">>,
  <<"e", "s">>,
  <<"s", "e">>,
  <<"e", "u">>,
  <<"n", "e", "t", "h", "e", "r", "l", "a", "n", "d", "s">>,
  <<"g", "e", "r", "m", "a", "n", "y">>,
  <<"f", "r", "a", "n", "c", "e">>,
  <<"s", "p", "a", "i", "n">>,
  <<"i", "t", "a", "l", "y">>,
  <<"b", "e", "l", "g", "i", "u", "m">>,
  <<"p", "o", "r", "t", "u", "g", "a", "l">>,
  <<"i", "r", "e", "l", "a", "n", "d">>,
  <<"a", "u", "s", "t", "r", "i", "a">>,
  <<"p", "o", "l", "a", "n", "d">>,
  <<"c", "z", "e", "c", "h">>,
  <<"s", "w", "e", "d", "e", "n">>,
  <<"f", "i", "n", "l", "a", "n", "d">>,
  <<"d", "e", "n", "m", "a", "r", "k">>,
  <<"g", "r", "e", "e", "c", "e">> >>

\* /\b(AT|BE|...|Greece)\b/i.test(String(location))
isEU(location) ==
  LET s == String(location)
  IN \E k \in DOMAIN euTokens : \E i \in 1..Len(s) :
        /\ wordAt(s, i, euTokens[k])
        /\ (i = 1 \/ ~IsWordChar(s[i - 1]))
        /\ (i + Len(euTokens[k]) > Len(s) \/ ~IsWordChar(s[i + Len(euTokens[k])]))

\* the statements between the validation and client.responses.create throw:
\* String(location) of the locale test does; the simple variant has no such
\* test, and JSON.stringify(userProfile) does not throw on a parsed body
promptThrows(v, body) == v = "full" /\ stringThrows(Get(body, "location"))

\* const userProfile = { age, location, strengths, enjoys, skillset, hoursPerWeek, seedBudget }
userProfile(body) ==
  Obj([k \in {"age", "location", "strengths", "enjoys", "skillset", "hoursPerWeek",
              "seedBudget"} |-> Get(body, k)])

\* the arguments of client.responses.create: the model, the sampling
\* parameters (in thousandths), the number of input messages, the locale hint
\* and the profile the prompt embeds.  The full variant sends the rubric as a
\* third message and a locale hint; the simple variant sends neither.
createArgs(v, body) ==
  IF v = "full"
  THEN [model |-> "gpt-4o-mini", temperature |-> 500, top_p |-> 900, messages |-> 3,
        eu |-> isEU(Get(body, "location")), profile |-> userProfile(body)]
  ELSE [model |-> "gpt-4o-mini", temperature |-> 600, top_p |-> 0, messages |-> 2,
        eu |-> FALSE, profile |-> userProfile(body)]

NoArgs == [model |-> "", temperature |-> 0, top_p |-> 0, messages |-> 0,
           eu |-> FALSE, profile |-> EmptyObj]

\* a faulty handler that returns the whole text as the detail: the property of
\* C4 must reject it
wholeTextDetail(text) == text

\* text.slice(0, 500) : the excerpt of the raw text a parse failure reports
notJsonDetail(text) == slice(text, 500)

\* for (const idea of data.ideas) { idea.difficulty = ...; idea.worthiness = ... }
\* of the simple variant, on an idea that is an object
clampScores(idea) ==
  Set(Set(idea, "difficulty", clampScore(Get(idea, "difficulty"))),
      "worthiness", clampScore(Get(idea, "worthiness")))

\* data.ideas = ensureDistinct(data.ideas.map(clampIdea)), or the loop of the
\* simple variant
postProcess(v, ideas) ==
  IF v = "full" THEN ensureDistinct(map(ideas, clampIdea)) ELSE map(ideas, clampScores)

\* the post-processing throws: clampIdea does, or the simple loop meets an
\* idea that is no object
postProcessThrows(v, ideas) ==
  \E i \in DOMAIN ideas : IF v = "full" THEN clampThrows(ideas[i]) ELSE ideas[i].t # "obj"

\* the handler once the output text is parsed: validate the shape,
\* post-process, answer
answer(v, r, text, parsed) ==
  IF ~parsed.ok
  THEN jsonWith(r, 500, errorDetailBody(InvalidNotJson, notJsonDetail(text)))
  ELSE IF Get(parsed.val, "ideas").t # "arr" \/ Len(Get(parsed.val, "ideas").v) # 3
  THEN jsonWith(r, 500, errorDetailBody(InvalidModelOutput, ExpectedIdeas))
  ELSE IF postProcessThrows(v, Get(parsed.val, "ideas").v)
  THEN jsonWith(r, 500, errorDetailBody(InvocationFailed, errDetail(TypeError)))
  ELSE jsonWith(r, 200, Set(parsed.val, "ideas",
                            Arr(postProcess(v, Get(parsed.val, "ideas").v))))

\* const text = ai.output_text || ""
outputText(out) == String(Or(out.output_text, EmptyStr))

(***************************************************************************)
(* Inputs: JSON texts and values the requests and the generator carry      *)
(***************************************************************************)
\* the characters of the object keys the inputs use
keyChars ==
  [title |-> <<"t", "i", "t", "l", "e">>,
   tagline |-> <<"t", "a", "g", "l", "i", "n", "e">>,
   sections |-> <<"s", "e", "c", "t", "i", "o", "n", "s">>,
   heading |-> <<"h", "e", "a", "d", "i", "n", "g">>,
   body |-> <<"b", "o", "d", "y">>,
   difficulty |-> <<"d", "i", "f", "f", "i", "c", "u", "l", "t", "y">>,
   worthiness |-> <<"w", "o", "r", "t", "h", "i", "n", "e", "s", "s">>,
   firstThreeSteps |-> <<"f", "i", "r", "s", "t", "T", "h", "r", "e", "e", "S", "t", "e", "p", "s">>,
   insights |-> <<"i", "n", "s", "i", "g", "h", "t", "s">>,
   feasibility |-> <<"f", "e", "a", "s", "i", "b", "i", "l", "i", "t", "y">>,
   numbers |-> <<"n", "u", "m", "b", "e", "r", "s">>,
   price |-> <<"p", "r", "i", "c", "e">>,
   cogs |-> <<"c", "o", "g", "s">>,
   marginPct |-> <<"m", "a", "r", "g", "i", "n", "P", "c", "t">>,
   breakEvenCustomers |-> <<"b", "r", "e", "a", "k", "E", "v", "e", "n", "C", "u", "s", "t", "o", "m", "e", "r", "s">>,
   startupCost |-> <<"s", "t", "a", "r", "t", "u", "p", "C", "o", "s", "t">>,
   monthlyCost |-> <<"m", "o", "n", "t", "h", "l", "y", "C", "o", "s", "t">>,
   validation |-> <<"v", "a", "l", "i", "d", "a", "t", "i", "o", "n">>,
   risks |-> <<"r", "i", "s", "k", "s">>,
   tooling |-> <<"t", "o", "o", "l", "i", "n", "g">>,
   name |-> <<"n", "a", "m", "e">>,
   use |-> <<"u", "s", "e">>,
   estMonthly |-> <<"e", "s", "t", "M", "o", "n", "t", "h", "l", "y">>,
   kpis |-> <<"k", "p", "i", "s">>,
   week1 |-> <<"w", "e", "e", "k", "1">>,
   month1 |-> <<"m", "o", "n", "t", "h", "1">>,
   quarter1 |-> <<"q", "u", "a", "r", "t", "e", "r", "1">>,
   ideas |-> <<"i", "d", "e", "a", "s">>,
   age |-> <<"a", "g", "e">>,
   location |-> <<"l", "o", "c", "a", "t", "i", "o", "n">>,
   strengths |-> <<"s", "t", "r", "e", "n", "g", "t", "h", "s">>,
   enjoys |-> <<"e", "n", "j", "o", "y", "s">>,
   skillset |-> <<"s", "k", "i", "l", "l", "s", "e", "t">>,
   hoursPerWeek |-> <<"h", "o", "u", "r", "s", "P", "e", "r", "W", "e", "e", "k">>,
   seedBudget |-> <<"s", "e", "e", "d", "B", "u", "d", "g", "e", "t">>,
   note |-> <<"n", "o", "t", "e">>,
   toString |-> <<"t", "o", "S", "t", "r", "i", "n", "g">>]

\* a string literal of a JSON text
RECURSIVE escape(_)
escape(s) ==
  LET j == nextSpecial(s, 1)
  IN IF j > Len(s) THEN s
     ELSE SubSeq(s, 1, j - 1)
          \o (CASE s[j] = "\"" -> <<"\\", "\"">>
                [] s[j] = "\\" -> <<"\\", "\\">>
                [] s[j] = "\n" -> <<"\\", "n">>
                [] s[j] = "\t" -> <<"\\", "t">>)
          \o escape(SubSeq(s, j + 1, Len(s)))

quote(s) == <<"\"">> \o escape(s) \o <<"\"">>

\* the texts ts with commas between them
RECURSIVE joinComma(_)
joinComma(ts) ==
  IF ts = <<>> THEN <<>>
  ELSE IF Len(ts) = 1 THEN ts[1]
  ELSE ts[1] \o <<",">> \o joinComma(Tail(ts))

\* the keys ks in an order
RECURSIVE keysIn(_)
keysIn(ks) ==
  IF ks = {} THEN <<>>
  ELSE <<CHOOSE x \in ks : TRUE>> \o keysIn(ks \ {CHOOSE x \in ks : TRUE})

\* JSON.stringify(x): a property whose value is undefined is left out, an
\* undefined or NaN element of an array is written null
RECURSIVE JSONstringify(_)

stringifyElements(a) == tuple([i \in DOMAIN a |-> JSONstringify(a[i])])

stringifyMembers(o, ks) ==
  tuple([i \in DOMAIN ks |->
           quote(keyChars[ks[i]]) \o <<":">> \o JSONstringify(o[ks[i]])])

JSONstringify(x) ==
  CASE x.t = "str" -> quote(x.v)
    [] x.t = "num" -> numToStr(x.v)
    [] x.t = "bool" -> String(x)
    [] x.t \in {"null", "NaN", "undefined"} -> <<"n", "u", "l", "l">>
    [] x.t = "arr" -> <<"[">> \o joinComma(stringifyElements(x.v)) \o <<"]">>
    [] x.t = "obj" ->
         <<"{">>
         \o joinComma(stringifyMembers(
               x.v, SelectSeq(keysIn(DOMAIN x.v), LAMBDA k : x.v[k].t # "undefined")))
         \o <<"}">>

\* n copies of the character c
rep(c, n) == [i \in 1..n |-> c]

\* how far the long texts of the inputs run over the cap they test
Overrun == 1

(* ------------------------------ requests ------------------------------ *)
profile ==
  [age |-> Whole(30), location |-> Str(<<"B", "e", "r", "l", "i", "n", ",", " ", "D", "E">>),
   strengths |-> Str(<<"w", "r", "i", "t", "i", "n", "g">>), enjoys |-> Str(<<"d", "o", "g", "s">>),
   skillset |-> Str(<<"h", "t", "m", "l">>), hoursPerWeek |-> Whole(10), seedBudget |-> Whole(200)]

\* the profile without the field k
without(k) == Obj([x \in (DOMAIN profile) \ {k} |-> profile[x]])

\* The values of req.body.  A string is a body the platform did not parse;
\* undefined is a request without body.
Bodies == <<
  Obj(profile),
  Str(JSONstringify(Obj(profile))),
  \* type-loose but complete: a string age, a negative and a zero number
  Obj([profile EXCEPT !.age = Str(<<"o", "l", "d">>), !.location = Str(<<"N", "Y">>),
                      !.hoursPerWeek = Whole(-1), !.seedBudget = Whole(0)]),
  without("age"), without("location"), without("strengths"), without("enjoys"),
  without("skillset"), without("hoursPerWeek"), without("seedBudget"),
  Obj([age |-> Whole(30), location |-> Str(<<"N", "Y">>)]),
  Obj([profile EXCEPT !.seedBudget = Null]),
  Obj([profile EXCEPT !.skillset = EmptyStr]),
  \* complete, with a location that is an object with a toString property
  Obj([profile EXCEPT !.location = Obj([toString |-> Whole(1)])]),
  Obj([profile EXCEPT !.location = Arr(<<Str(<<"D", "E">>), Obj([toString |-> Null])>>)]),
  Str(JSONstringify(without("enjoys"))),
  EmptyObj,
  Undef,
  Null,
  Str(<<"{", "}">>),
  Str(<<"5">>),
  Str(<<"n", "u", "l", "l">>),
  Str(<<"n", "o", "t", " ", "j", "s", "o", "n">>),
  Str(<<"{", "\"", "a", "g", "e", "\"", ":", "3", "0", ",">>),
  EmptyStr >>

Methods == {"POST", "OPTIONS", "GET", "PUT", "DELETE"}

(* -------------------------- generator outputs -------------------------- *)
section(h, b) == Obj([heading |-> Str(h), body |-> Str(b)])

\* n sections; the second one has the body body2
sectionsOf(n, body2) ==
  Arr([i \in 1..n |-> section(<<"H">> \o natToStr(i), IF i = 2 THEN body2 ELSE <<"p">> \o natToStr(i))])

stepsOf(n) == Arr([i \in 1..n |-> Str(<<"d", "o", " ">> \o natToStr(i))])

tool(n, u, m) == Obj([name |-> Str(n), use |-> Str(u), estMonthly |-> m])

toolsOf(n) == Arr([i \in 1..n |-> tool(<<"T">> \o natToStr(i), <<"u", "s", "e">>, Whole(i))])

threeOf(a, b, c) == Arr(<<Str(a), Str(b), Str(c)>>)

baseInsights ==
  Obj([feasibility |-> Str(<<"t", "w", "o", " ", "w", "e", "e", "k", "s">>),
       numbers |-> Obj([price |-> Whole(20), cogs |-> Whole(5), marginPct |-> Whole(75),
                        breakEvenCustomers |-> Whole(10), startupCost |-> Whole(100),
                        monthlyCost |-> Whole(15)]),
       validation |-> threeOf(<<"a", "s", "k">>, <<"p", "o", "s", "t">>, <<"s", "e", "l", "l">>),
       risks |-> threeOf(<<"t", "i", "m", "e">>, <<"c", "o", "s", "t">>, <<"c", "h", "u", "r", "n">>),
       tooling |-> toolsOf(2),
       kpis |-> Obj([week1 |-> Str(<<"o", "n", "e", " ", "s", "a", "l", "e">>), month1 |-> Str(<<"t", "e", "n", " ", "s", "a", "l", "e", "s">>),
                     quarter1 |-> Str(<<"f", "i", "f", "t", "y", " ", "s", "a", "l", "e", "s">>)])])

\* an idea that conforms to the schema of the request
idea(title, body2) ==
  Obj([title |-> Str(title), tagline |-> Str(<<"t", "a", "g">>),
       sections |-> sectionsOf(10, body2), difficulty |-> Whole(5), worthiness |-> Whole(7),
       firstThreeSteps |-> stepsOf(3), insights |-> baseInsights])

with(i, k, x) == Set(i, k, x)

withInsights(i, k, x) == Set(i, "insights", Set(Get(i, "insights"), k, x))

ideaA == idea(<<"D", "o", "g", " ", "w", "a", "l", "k", "s">>, <<"w", "a", "l", "k", " ", "d", "o", "g", "s">>)

ideaB == idea(<<"W", "e", "b", " ", "s", "h", "o", "p">>, <<"s", "e", "l", "l", " ", "m", "u", "g", "s">>)

ideaC == idea(<<"M", "a", "t", "h", " ", "t", "u", "t", "o", "r">>, <<"t", "e", "a", "c", "h", " ", "k", "i", "d", "s">>)

ideasOf(a, b, c) == Obj([ideas |-> Arr(<<a, b, c>>)])

PetCare == <<"P", "e", "t", " ", "c", "a", "r", "e">>

\* a title of 70 + Overrun characters
longTitle == <<"P", "e", "t", " ", "c", "a", "r", "e", " ">> \o rep("x", 61 + Overrun)

\* The JSON values the generator returns as text.
GoodOutputs == <<
  \* 1: three distinct, conforming ideas, and a property beside ideas
  Set(ideasOf(ideaA, ideaB, ideaC), "note", Str(<<"h", "i">>)),
  \* 2, 3: difficulty and worthiness out of range, fractional, non-numeric, missing
  ideasOf(with(with(ideaA, "difficulty", Whole(15)), "worthiness", Whole(0)),
          with(with(ideaB, "difficulty", Str(<<"a", "b", "c">>)), "worthiness", Whole(-3)),
          with(with(ideaC, "difficulty", Num(5500)), "worthiness", Undef)),
  ideasOf(with(with(ideaA, "difficulty", Str(<<"7">>)), "worthiness", Null),
          with(with(ideaB, "difficulty", Bool(TRUE)), "worthiness", Str(<<"1", "5">>)),
          with(with(ideaC, "difficulty", Whole(10)), "worthiness", Whole(1))),
  \* 4, 5, 6: too few, missing, non-array and too many sections, steps, tools
  ideasOf(with(ideaA, "sections", sectionsOf(2, <<"w", "a", "l", "k", " ", "d", "o", "g", "s">>)),
          with(ideaB, "firstThreeSteps", stepsOf(1)), ideaC),
  ideasOf(with(ideaA, "sections", Undef), with(ideaB, "sections", Str(<<"n", "o", "n", "e">>)),
          with(ideaC, "firstThreeSteps", Undef)),
  ideasOf(with(with(ideaA, "sections", sectionsOf(11, <<"w", "a", "l", "k", " ", "d", "o", "g", "s">>)),
               "firstThreeSteps", stepsOf(4)),
          withInsights(ideaB, "tooling", toolsOf(7)),
          withInsights(ideaC, "validation",
                       Arr(<<Str(<<"a">>), Str(<<"b">>), Str(<<"c">>), Str(<<"d">>)>>))),
  \* 7: banned phrases, emoji, white space runs, more than three sentences
  ideasOf(with(with(with(ideaA, "title", Str(<<"U+1F680", " ", "G", "u", "a", "r", "a", "n", "t", "e", "e", "d", " ", "d", "o", "g", " ", " ", "w", "a", "l", "k", "s">>)),
               "tagline", Str(<<"G", "e", "t", " ", " ", "r", "i", "c", "h", " ", "w", "i", "t", "h", " ", "N", "o", " ", "R", "i", "s", "k", ".", " ", "P", "a", "s", "s", "i", "v", "e", " ", "i", "n", "c", "o", "m", "e", ",", " ", "1", "0", "0", "%", " ", "s", "u", "c", "c", "e", "s", "s", ":", " ", "s", "e", "c", "r", "e", "t", " ", "h", "a", "c", "k", ",", " ", "v", "i", "r", "a", "l", " ", "o", "v", "e", "r", "n", "i", "g", "h", "t">>)),
               "sections", Arr(<<section(<<"E", "f", "f", "o", "r", "t", "l", "e", "s", "s", " ", "U+2728">>, <<"p", "1">>),
                                 section(<<"H", "2">>, <<"T", "h", "i", "s", " ", "i", "s", " ", "g", "u", "a", "r", "a", "n", "t", "e", "e", "d", " ", "t", "o", " ", "w", "o", "r", "k", " ", "o", "v", "e", "r", "n", "i", "g", "h", "t", "!">>)>>
                               \o SubSeq(sectionsOf(10, <<>>).v, 3, 10))),
          with(ideaB, "firstThreeSteps",
               threeOf(<<"O", "n", "e", ".", " ", "T", "w", "o", ".", " ", " ", "T", "h", "r", "e", "e", ".", " ", "F", "o", "u", "r", ".", " ", "F", "i", "v", "e", ".">>, <<" ", "g", "e", "t", " ", "r", "i", "c", "h", " ">>, <<"o", "v", "e", "r", "g", "u", "a", "r", "a", "n", "t", "e", "e", "d", "n", "i", "g", "h", "t">>)),
          withInsights(withInsights(ideaC, "feasibility", Str(<<"n", "o", " ", " ", " ", "r", "i", "s", "k", " ", "U+1F600">>)),
                       "risks", threeOf(<<"a", ".", " ", "g", "u", "a", "r", "a", "n", "t", "e", "e", "d">>, <<"G", "U", "A", "R", "A", "N", "T", "E", "E", "D">>, <<"o", "k">>))),
  \* 8: a banned phrase that the removal of another one puts together
  ideasOf(with(ideaA, "tagline", Str(<<"g", "u", "a", "g", "u", "a", "r", "a", "n", "t", "e", "e", "d", "r", "a", "n", "t", "e", "e", "d", " ", "r", "e", "s", "u", "l", "t", "s">>)),
          withInsights(ideaB, "risks", threeOf(<<"g", "u", "a", "r", "a", "n", "o", "v", "e", "r", "n", "i", "g", "h", "t", "t", "e", "e", "d">>, <<"b">>, <<"c">>)),
          ideaC),
  \* 9 - 12: identical titles: two, three, empty, made of non-word characters
  ideasOf(with(ideaA, "title", Str(PetCare)), with(ideaB, "title", Str(PetCare)), ideaC),
  ideasOf(with(ideaA, "title", Str(PetCare)), with(ideaB, "title", Str(PetCare)),
          with(ideaC, "title", Str(PetCare))),
  ideasOf(with(ideaA, "title", EmptyStr), with(ideaB, "title", EmptyStr), ideaC),
  ideasOf(ideaA, with(ideaB, "title", Str(<<"!", "!", "!">>)), with(ideaC, "title", Str(<<"!", "!", "!">>))),
  \* 13: identical titles at the length cap
  ideasOf(with(ideaA, "title", Str(longTitle)), with(ideaB, "title", Str(longTitle)), ideaC),
  \* 14: every string longer than its cap
  ideasOf(with(with(with(ideaA, "title", Str(rep("t", 70 + Overrun))),
               "tagline", Str(rep("g", 120 + Overrun))),
               "firstThreeSteps", threeOf(rep("s", 140 + Overrun), <<"b">>, <<"c">>)),
          with(withInsights(withInsights(withInsights(ideaB,
               "feasibility", Str(rep("f", 240 + Overrun))),
               "tooling", Arr(<<tool(rep("n", 40 + Overrun), rep("u", 120 + Overrun), Whole(1)),
                                tool(<<"T">>, <<"u">>, Whole(2))>>)),
               "kpis", Obj([week1 |-> Str(rep("w", 120 + Overrun)),
                            month1 |-> Str(rep("m", 140 + Overrun)),
                            quarter1 |-> Str(rep("q", 160 + Overrun))])),
               "sections", sectionsOf(10, rep("y", 550 + Overrun))),
          withInsights(withInsights(ideaC,
               "validation", threeOf(rep("v", 140 + Overrun), <<"b">>, <<"c">>)),
               "risks", threeOf(<<"a">>, rep("r", 140 + Overrun), <<"c">>))),
  \* 15: distinct titles, the same second section
  ideasOf(ideaA, with(ideaB, "sections", sectionsOf(10, <<"w", "a", "l", "k", " ", "d", "o", "g", "s">>)), ideaC),
  \* 16: token overlap of exactly 0.6, and of two thirds
  ideasOf(with(ideaA, "title", Str(<<"a", " ", "b", " ", "c", " ", "d", " ", "e">>)), with(ideaB, "title", Str(<<"A", "-", "B", "-", "C", " ", "x", " ", "y">>)),
          ideaC),
  ideasOf(with(ideaA, "title", Str(<<"a", " ", "b", " ", "c">>)), ideaB, with(ideaC, "title", Str(<<"a", " ", "b", " ", "x">>))),
  \* 17, 18: an idea that is null; entries of validation that are no strings
  Obj([ideas |-> Arr(<<ideaA, Null, ideaC>>)]),
  ideasOf(ideaA, withInsights(ideaB, "validation", Arr(<<Whole(5), Str(<<"x">>), Str(<<"y">>)>>)), ideaC),
  ideasOf(withInsights(ideaA, "validation", Arr(<<Null, EmptyStr, Num(0)>>)),
          with(ideaB, "insights", Undef),
          withInsights(withInsights(ideaC, "kpis", Undef), "numbers", Undef)),
  \* 19: numbers with three decimals, a negative and a fractional head count
  ideasOf(withInsights(ideaA, "numbers",
                       Obj([price |-> Num(19999), cogs |-> Num(2005), marginPct |-> Num(-1005),
                            breakEvenCustomers |-> Num(-2500), startupCost |-> Str(<<"1", "0", "0">>),
                            monthlyCost |-> Num(15004)])),
          withInsights(ideaB, "numbers", Obj([breakEvenCustomers |-> Num(12500)])),
          withInsights(ideaC, "tooling",
                       Arr(<<tool(<<"T">>, <<"u">>, Num(9995)), tool(<<"V">>, <<"u">>, Str(<<"9">>)),
                             Null>>))),
  \* 20 - 25: JSON of the wrong shape
  Obj([ideas |-> Arr(<<ideaA, ideaB>>)]),
  Obj([ideas |-> Arr(<<ideaA, ideaB, ideaC, ideaA>>)]),
  Obj([ideas |-> Str(<<"n", "o", "n", "e">>)]),
  EmptyObj,
  Null,
  Arr(<<ideaA, ideaB, ideaC>>),
  \* a title that has no string form; insights and kpis that are arrays
  ideasOf(ideaA, with(ideaB, "title", Obj([toString |-> Whole(1)])), ideaC),
  ideasOf(with(ideaA, "insights", Arr(<<Str(<<"x">>)>>)),
          withInsights(ideaB, "kpis", Arr(<<>>)), ideaC),
  \* the same second section, and the later title empty
  ideasOf(ideaA,
          with(with(ideaB, "title", EmptyStr),
               "sections", sectionsOf(10, <<"w", "a", "l", "k", " ", "d", "o", "g", "s">>)),
          ideaC) >>

\* Texts that are no JSON: prose, a JSON text cut short, and texts of 500 and
\* of 500 + Overrun characters.
BadTexts == <<
  <<"n", "o", "t", " ", "j", "s", "o", "n">>,
  <<"{", "\"", "i", "d", "e", "a", "s", "\"", ":", "[">>,
  rep("x", 500),
  rep("x", 500 + Overrun),
  SubSeq(JSONstringify(ideasOf(ideaA, ideaB, ideaC)), 1, 500 + Overrun) >>

\* what client.responses.create resolves to: ai.output_text
GenOutputs ==
  [i \in DOMAIN GoodOutputs |-> [output_text |-> Str(JSONstringify(GoodOutputs[i]))]]
  \o [i \in DOMAIN BadTexts |-> [output_text |-> Str(BadTexts[i])]]
  \o <<[output_text |-> EmptyStr], [output_text |-> Undef]>>

\* what it rejects with: an upstream failure, with and without message
GenErrors == <<
  [name |-> <<"E", "r", "r", "o", "r">>, message |-> <<"4", "0", "1", " ", "I", "n", "c", "o", "r", "r", "e", "c", "t", " ", "A", "P", "I", " ", "k", "e", "y", " ", "p", "r", "o", "v", "i", "d", "e", "d">>],
  [name |-> <<"E", "r", "r", "o", "r">>, message |-> <<"C", "o", "n", "n", "e", "c", "t", "i", "o", "n", " ", "e", "r", "r", "o", "r", ".">>],
  [name |-> <<"E", "r", "r", "o", "r">>, message |-> <<>>] >>

(***************************************************************************)
(* The state machine                                                       *)
(*                                                                         *)
(* variant   which handler is deployed: "full" or "simple"                 *)
(* pc        "idle" before the first request, "awaiting" while the handler *)
(*           is suspended in client.responses.create, "done" once the      *)
(*           response is written                                          *)
(* req       the request: [method, body]                                   *)
(* res       the response: [status, headers, body, sent]                   *)
(* genCalls  the calls of client.responses.create made for this request    *)
(* genArgs   the arguments of the last of them                             *)
(* bodyRead  whether the handler has read req.body                         *)
(***************************************************************************)
Variants == {"full", "simple"}

NoRequest == [method |-> "", body |-> Undef]

\* no result of client.responses.create has arrived in this invocation
NoOutput == [output_text |-> Undef, pending |-> TRUE]

\* client.responses.create has rejected with err
Thrown(err) == [output_text |-> Undef, pending |-> FALSE, thrown |-> err]

Init ==
  /\ variant \in Variants
  /\ pc = "idle"
  /\ req = NoRequest
  /\ res = freshResponse
  /\ genCalls = 0
  /\ genArgs = NoArgs
  /\ bodyRead = FALSE
  /\ ai = NoOutput

\* the platform invokes the handler with the request [m, b]; each invocation
\* has its own response object
Invoked(m, b) ==
  /\ pc \in {"idle", "done"}
  /\ req' = [method |-> m, body |-> b]
  /\ ai' = NoOutput
  /\ UNCHANGED variant

\* if (req.method === "OPTIONS") return res.status(200).end()
Preflight(m, b) ==
  /\ Invoked(m, b)
  /\ m = "OPTIONS"
  /\ res' = endWith(openResponse, 200)
  /\ pc' = "done"
  /\ genCalls' = 0 /\ genArgs' = NoArgs /\ bodyRead' = FALSE

\* if (req.method !== "POST") return res.status(405).json(...)
WrongMethod(m, b) ==
  /\ Invoked(m, b)
  /\ m # "OPTIONS" /\ m # "POST"
  /\ res' = jsonWith(openResponse, 405, errorBody(MethodNotAllowed))
  /\ pc' = "done"
  /\ genCalls' = 0 /\ genArgs' = NoArgs /\ bodyRead' = FALSE

\* JSON.parse(req.body) or the destructuring of its result throws: the catch
\* clause answers 500
BodyThrows(m, b) ==
  /\ Invoked(m, b)
  /\ m = "POST"
  /\ \E p \in {parseBody(b)} :
        /\ ~p.ok \/ destructureThrows(p.val)
        /\ res' = jsonWith(openResponse, 500,
                           errorDetailBody(InvocationFailed,
                                           errDetail(IF p.ok THEN TypeError ELSE SyntaxError)))
  /\ pc' = "done"
  /\ genCalls' = 0 /\ genArgs' = NoArgs /\ bodyRead' = TRUE

\* a required field is missing: 400
Rejected(m, b) ==
  /\ Invoked(m, b)
  /\ m = "POST"
  /\ \E p \in {parseBody(b)} :
        p.ok /\ ~destructureThrows(p.val) /\ missingFields(p.val)
  /\ res' = jsonWith(openResponse, 400, errorBody(MissingRequiredFields))
  /\ pc' = "done"
  /\ genCalls' = 0 /\ genArgs' = NoArgs /\ bodyRead' = TRUE

\* the request is valid and the construction of the prompt throws: the catch
\* clause answers 500
PromptThrows(m, b) ==
  /\ Invoked(m, b)
  /\ m = "POST"
  /\ \E p \in {parseBody(b)} :
        /\ p.ok /\ ~destructureThrows(p.val) /\ ~missingFields(p.val)
        /\ promptThrows(variant, p.val)
  /\ res' = jsonWith(openResponse, 500, errorDetailBody(InvocationFailed, errDetail(TypeError)))
  /\ pc' = "done"
  /\ genCalls' = 0 /\ genArgs' = NoArgs /\ bodyRead' = TRUE

\* the request is valid: the prompt is built and client.responses.create is
\* called; the handler waits for it
CallGenerator(m, b) ==
  /\ Invoked(m, b)
  /\ m = "POST"
  /\ \E p \in {parseBody(b)} :
        /\ p.ok /\ ~destructureThrows(p.val) /\ ~missingFields(p.val)
        /\ ~promptThrows(variant, p.val)
        /\ genArgs' = createArgs(variant, p.val)
  /\ res' = openResponse
  /\ pc' = "awaiting"
  /\ genCalls' = 1 /\ bodyRead' = TRUE

\* client.responses.create resolves: the handler parses, validates,
\* post-processes and answers
GeneratorReturns(out) ==
  /\ pc = "awaiting"
  /\ \E text \in {outputText(out)} : \E parsed \in {JSONparse(text)} :
        res' = answer(variant, res, text, parsed)
  /\ ai' = out
  /\ pc' = "done"
  /\ UNCHANGED <<variant, req, genCalls, genArgs, bodyRead>>

\* client.responses.create rejects: the catch clause answers 500
GeneratorThrows(err) ==
  /\ pc = "awaiting"
  /\ res' = jsonWith(res, 500, errorDetailBody(InvocationFailed, errDetail(err)))
  /\ ai' = Thrown(err)
  /\ pc' = "done"
  /\ UNCHANGED <<variant, req, genCalls, genArgs, bodyRead>>

Next ==
  \/ \E m \in Methods : \E i \in DOMAIN Bodies : Preflight(m, Bodies[i])
  \/ \E m \in Methods : \E i \in DOMAIN Bodies : WrongMethod(m, Bodies[i])
  \/ \E m \in Methods : \E i \in DOMAIN Bodies : BodyThrows(m, Bodies[i])
  \/ \E m \in Methods : \E i \in DOMAIN Bodies : Rejected(m, Bodies[i])
  \/ \E m \in Methods : \E i \in DOMAIN Bodies : PromptThrows(m, Bodies[i])
  \/ \E m \in Methods : \E i \in DOMAIN Bodies : CallGenerator(m, Bodies[i])
  \/ \E i \in DOMAIN GenOutputs : GeneratorReturns(GenOutputs[i])
  \/ \E i \in DOMAIN GenErrors : GeneratorThrows(GenErrors[i])

Spec == Init /\ [][Next]_vars

(***************************************************************************)
(* Properties                                                              *)
(***************************************************************************)
\* the handler has answered a POST request with 200
Success == pc = "done" /\ req.method = "POST" /\ res.sent /\ res.status = 200

\* the ideas of the response body
responseIdeas == Get(res.body, "ideas").v

\* what the generator returned, parsed, and the ideas in it
generated == JSONparse(outputText(ai)).val

generatedIdeas == Get(generated, "ideas").v

hasLength(x, n) == x.t = "arr" /\ Len(x.v) = n

elements(x) == IF x.t = "arr" THEN {x.v[i] : i \in DOMAIN x.v} ELSE {}

textOf(x) == IF x.t = "str" THEN x.v ELSE <<>>

texts(S) == {textOf(x) : x \in S}

\* C1: whenever the handler of src/api/ideas.ts answers 200, the body holds
\* exactly 3 ideas, and each idea has exactly 10 sections and exactly 3
\* firstThreeSteps entries, whatever the generator returned.
C1_ExactCounts ==
  (variant = "full" /\ Success) =>
    /\ hasLength(Get(res.body, "ideas"), 3)
    /\ \A i \in DOMAIN responseIdeas :
          /\ hasLength(Get(responseIdeas[i], "sections"), 10)
          /\ hasLength(Get(responseIdeas[i], "firstThreeSteps"), 3)

IsWholeScore(x) == x.t = "num" /\ \E k \in 1..10 : x.v = k * Scale

\* what the claim C2 says of one score: an integer in [1,10]; 10 for a number
\* above 10; 1 for a value that is no number
scoreAsClaimed(raw, out) ==
  /\ IsWholeScore(out)
  /\ (raw.t = "num" /\ raw.v > 10 * Scale) => out = Whole(10)
  /\ Number(raw).t = "NaN" => out = Whole(1)

\* C2: in every 200 response, of either handler, difficulty and worthiness of
\* each idea are integers in [1,10] whatever the generator returned for them;
\* a value above 10 becomes 10 and a non-numeric value becomes 1.
C2_IntegerScores ==
  Success =>
    \A i \in DOMAIN responseIdeas :
      /\ scoreAsClaimed(Get(generatedIdeas[i], "difficulty"),
                        Get(responseIdeas[i], "difficulty"))
      /\ scoreAsClaimed(Get(generatedIdeas[i], "worthiness"),
                        Get(responseIdeas[i], "worthiness"))

RequiredFields ==
  {"age", "location", "strengths", "enjoys", "skillset", "hoursPerWeek", "seedBudget"}

\* the value v, a request body once it is read, lacks a required field: it
\* is no object, or a field is absent, null or the empty string
lacksField(v) ==
  \/ v.t # "obj"
  \/ \E k \in RequiredFields : Nullish(Get(v, k)) \/ Get(v, k) = EmptyStr

\* the body b can be read and lacks a required field
bodyLacksField(b) == parseBody(b).ok /\ lacksField(parseBody(b).val)

\* C3: every POST request whose body lacks a required field (an empty body, a
\* body that parses to null, a field that is null or empty) is answered 400,
\* with a body that has an error field and no ideas key, and the generator is
\* not called.
C3_MissingFieldsIs400 ==
  (pc = "done" /\ req.method = "POST" /\ bodyLacksField(req.body)) =>
    /\ res.status = 400
    /\ res.body.t = "obj"
    /\ "error" \in DOMAIN res.body.v
    /\ "ideas" \notin DOMAIN res.body.v
    /\ genCalls = 0

\* the generator has returned, and not thrown
Returned == pc = "done" /\ genCalls = 1 /\ "thrown" \notin DOMAIN ai

\* the generator has returned a text that is no JSON
NotJsonReturned == Returned /\ ~JSONparse(outputText(ai)).ok

\* C4: whenever the generator's text does not parse as JSON (the empty text
\* included), the response is 500 with the error "Invalid model output (not
\* JSON)" and a detail that is a prefix of the text, at most 500 characters
\* long; a text longer than 500 characters is never returned whole.
C4_NotJsonDetail ==
  NotJsonReturned =>
    /\ res.status = 500
    /\ Get(res.body, "error") = Str(InvalidNotJson)
    /\ Get(res.body, "detail").t = "str"
    /\ Len(Get(res.body, "detail").v) <= 500
    /\ Get(res.body, "detail").v
         = SubSeq(outputText(ai), 1, Len(Get(res.body, "detail").v))
    /\ Len(outputText(ai)) > 500 => Get(res.body, "detail").v # outputText(ai)

\* a text that is no JSON and longer than 500 characters has been answered
\* with its first 500 characters
C4_LongTextCut ==
  /\ NotJsonReturned
  /\ Len(outputText(ai)) > 500
  /\ res.status = 500
  /\ Len(Get(res.body, "detail").v) = 500

\* the phrases of the banned list, in lower case
BannedPhrases == {
  <<"g", "u", "a", "r", "a", "n", "t", "e", "e", "d">>,
  <<"e", "f", "f", "o", "r", "t", "l", "e", "s", "s">>,
  <<"o", "v", "e", "r", "n", "i", "g", "h", "t">>,
  <<"g", "e", "t", " ", "r", "i", "c", "h">>,
  <<"n", "o", " ", "r", "i", "s", "k">>,
  <<"p", "a", "s", "s", "i", "v", "e", " ", "i", "n", "c", "o", "m", "e">>,
  <<"1", "0", "0", "%", " ", "s", "u", "c", "c", "e", "s", "s">>,
  <<"s", "e", "c", "r", "e", "t", " ", "h", "a", "c", "k">>,
  <<"v", "i", "r", "a", "l", " ", "o", "v", "e", "r", "n", "i", "g", "h", "t">> }

\* the phrase w stands somewhere in s, whatever the case of the letters
hasPhrase(s, w) ==
  \E i \in 1..(Len(s) - Len(w) + 1) :
    \A k \in 1..Len(w) : toLowerCase(s[i + k - 1]) = w[k]

\* the free-text fields of an idea
freeTexts(x) ==
  texts({Get(x, "title"), Get(x, "tagline"),
         Get(Get(x, "insights"), "feasibility"),
         Get(Get(Get(x, "insights"), "kpis"), "week1"),
         Get(Get(Get(x, "insights"), "kpis"), "month1"),
         Get(Get(Get(x, "insights"), "kpis"), "quarter1")})
  \cup texts({Get(sec, "heading") : sec \in elements(Get(x, "sections"))})
  \cup texts({Get(sec, "body") : sec \in elements(Get(x, "sections"))})
  \cup texts(elements(Get(x, "firstThreeSteps")))
  \cup texts(elements(Get(Get(x, "insights"), "validation")))
  \cup texts(elements(Get(Get(x, "insights"), "risks")))
  \cup texts({Get(tl, "name") : tl \in elements(Get(Get(x, "insights"), "tooling"))})
  \cup texts({Get(tl, "use") : tl \in elements(Get(Get(x, "insights"), "tooling"))})

\* C5: in every 200 response of the handler of src/api/ideas.ts, no free-text
\* field of any idea contains a phrase of the banned list, whatever the case,
\* or an emoji, whatever text the generator returned.
C5_NoBannedText ==
  (variant = "full" /\ Success) =>
    \A i \in DOMAIN responseIdeas : \A s \in freeTexts(responseIdeas[i]) :
      /\ \A k \in DOMAIN s : ~IsEmoji(s[k])
      /\ \A w \in BannedPhrases : ~hasPhrase(s, w)

\* the text s ends with the text w
endsWith(s, w) == Len(s) >= Len(w) /\ SubSeq(s, Len(s) - Len(w) + 1, Len(s)) = w

\* C6: when two of the three ideas the generator returned have identical
\* titles (the empty title and titles without a word character included), the
\* 200 response carries distinct titles for the two, and the later one ends
\* with " — Alt".
C6_IdenticalTitlesSplit ==
  (variant = "full" /\ Success) =>
    \A i, j \in DOMAIN responseIdeas :
      (/\ i < j
       /\ Get(generatedIdeas[i], "title").t = "str"
       /\ Get(generatedIdeas[i], "title") = Get(generatedIdeas[j], "title")) =>
        /\ Get(responseIdeas[i], "title") # Get(responseIdeas[j], "title")
        /\ endsWith(textOf(Get(responseIdeas[j], "title")), AltSuffix)

\* C7: in every 200 response, isTooSimilar is false for the titles of every
\* pair of ideas.
C7_NoSimilarTitles ==
  (variant = "full" /\ Success) =>
    \A i, j \in DOMAIN responseIdeas :
      i < j => ~isTooSimilar(textOf(Get(responseIdeas[i], "title")),
                             textOf(Get(responseIdeas[j], "title")))

\* every text of S is at most cap characters long
within(S, cap) == \A s \in S : Len(s) <= cap

\* the length caps of the string fields of an idea
capsHold(x) ==
  /\ within(texts({Get(x, "title")}), 70)
  /\ within(texts({Get(x, "tagline")}), 120)
  /\ within(texts({Get(sec, "body") : sec \in elements(Get(x, "sections"))}), 550)
  /\ within(texts(elements(Get(x, "firstThreeSteps"))), 140)
  /\ within(texts(elements(Get(Get(x, "insights"), "validation"))), 140)
  /\ within(texts(elements(Get(Get(x, "insights"), "risks"))), 140)
  /\ within(texts({Get(Get(x, "insights"), "feasibility")}), 240)
  /\ within(texts({Get(tl, "name") : tl \in elements(Get(Get(x, "insights"), "tooling"))}), 40)
  /\ within(texts({Get(tl, "use") : tl \in elements(Get(Get(x, "insights"), "tooling"))}), 120)
  /\ within(texts({Get(Get(Get(x, "insights"), "kpis"), "week1")}), 120)
  /\ within(texts({Get(Get(Get(x, "insights"), "kpis"), "month1")}), 140)
  /\ within(texts({Get(Get(Get(x, "insights"), "kpis"), "quarter1")}), 160)

\* C8: in every 200 response every string field respects its length cap,
\* whatever the generator returned: title 70 (also after deduplication),
\* tagline 120, section body 550, firstThreeSteps, validation and risks 140,
\* feasibility 240, tooling name 40 and use 120, kpis 120 / 140 / 160.
C8_LengthCaps ==
  (variant = "full" /\ Success) =>
    \A i \in DOMAIN responseIdeas : capsHold(responseIdeas[i])

\* the three CORS headers are set
CorsHeadersSet ==
  /\ DOMAIN res.headers
       = {"AccessControlAllowOrigin", "AccessControlAllowMethods", "AccessControlAllowHeaders"}
  /\ res.headers.AccessControlAllowMethods = <<"P", "O", "S", "T", ",", " ", "O", "P", "T", "I", "O", "N", "S">>
  /\ res.headers.AccessControlAllowHeaders = <<"C", "o", "n", "t", "e", "n", "t", "-", "T", "y", "p", "e">>

\* C9: the method is decided first: OPTIONS is answered 200 with an empty
\* body, a method other than POST and OPTIONS is answered 405, in both cases
\* with the three CORS headers set, the body not inspected and the generator
\* not called; every 200, 400 and 500 response carries the three CORS headers.
C9_MethodFirst ==
  pc = "done" =>
    /\ res.sent /\ CorsHeadersSet
    /\ req.method = "OPTIONS" =>
         res.status = 200 /\ res.body = Undef /\ ~bodyRead /\ genCalls = 0
    /\ req.method \notin {"POST", "OPTIONS"} =>
         res.status = 405 /\ ~bodyRead /\ genCalls = 0

\* a GET request whose body is no JSON has been answered 405, and an OPTIONS
\* request 200
C9_GetRefused ==
  /\ pc = "done"
  /\ req.method = "GET"
  /\ req.body.t = "str" /\ ~JSONparse(req.body.v).ok
  /\ res.status = 405
  /\ CorsHeadersSet

\* the body b is malformed: a string that is no JSON, or JSON that is no
\* object
bodyIsMalformed(b) ==
  b.t = "str" /\ (~JSONparse(b.v).ok \/ JSONparse(b.v).val.t \notin {"obj", "arr"})

\* C10: a POST request whose body is malformed is answered 400 by the handler
\* of src/api/ideas.ts, never 500; 500 is answered only after validation has
\* passed and the generator has been called.
C10_MalformedIs400 ==
  (variant = "full" /\ pc = "done" /\ req.method = "POST") =>
    /\ bodyIsMalformed(req.body) => res.status = 400
    /\ res.status = 500 => genCalls = 1

\* the body b passes the validation of the handler
passesValidation(b) ==
  /\ parseBody(b).ok
  /\ ~destructureThrows(parseBody(b).val)
  /\ ~missingFields(parseBody(b).val)

\* C11: the generator is called at most once in an execution of the handler:
\* exactly once for a POST request that passes validation, and only after the
\* validation has passed; never for OPTIONS, for another method or for a
\* request answered 400; a failed call or an unusable output is not followed
\* by a second call.
C11_CalledOnce ==
  /\ genCalls <= 1
  /\ pc = "awaiting" =>
        genCalls = 1 /\ req.method = "POST" /\ passesValidation(req.body)
  /\ pc = "done" =>
        /\ genCalls = IF req.method = "POST" /\ passesValidation(req.body) THEN 1 ELSE 0
        /\ res.status \in {400, 405} => genCalls = 0
        /\ req.method # "POST" => genCalls = 0

\* the generator's text parses, and the value is not an object with an ideas
\* array of length 3
WrongShape ==
  /\ Returned /\ JSONparse(outputText(ai)).ok
  /\ ~hasLength(Get(generated, "ideas"), 3)

\* the generator's text parses and has the shape
RightShape ==
  /\ Returned /\ JSONparse(outputText(ai)).ok
  /\ hasLength(Get(generated, "ideas"), 3)

\* one of the ideas returned is null
hasNullIdea == \E i \in DOMAIN generatedIdeas : generatedIdeas[i] = Null

\* the entries of validation and of risks of the ideas returned
rawEntries ==
  UNION {elements(Get(Get(generatedIdeas[i], "insights"), k)) :
           i \in DOMAIN generatedIdeas, k \in {"validation", "risks"}}

\* the response is 500 with the tag FUNCTION_INVOCATION_FAILED and the detail d
failedWith(d) ==
  /\ res.status = 500
  /\ Get(res.body, "error") = Str(InvocationFailed)
  /\ Get(res.body, "detail") = Str(d)

\* JSON.parse of the request body, or the destructuring of its result, throws
bodyThrew ==
  /\ pc = "done" /\ req.method = "POST"
  /\ ~parseBody(req.body).ok \/ Nullish(parseBody(req.body).val)

\* the generator call has thrown
generatorThrew == pc = "done" /\ "thrown" \in DOMAIN ai

\* what the claim C12 says of every response: sent, with an ideas key exactly
\* when the status is 200, and with an error field when it is 400, 405 or 500
bodyAsClaimed ==
  /\ res.sent
  /\ (res.body.t = "obj" /\ "ideas" \in DOMAIN res.body.v) <=> (res.status = 200)
  /\ res.status \in {400, 405, 500} =>
        res.body.t = "obj" /\ "error" \in DOMAIN res.body.v

\* C12 as stated: every request gets one response; its body has an ideas key
\* if and only if the status is 200; a 400, 405 or 500 body has an error
\* field; an output of the wrong shape gives 500 "Invalid model output"; an
\* exception (in parsing, in the generator call, an idea that is null, an
\* entry of validation or risks that is no string) gives 500
\* FUNCTION_INVOCATION_FAILED with the message of the exception as detail.
C12_OneResponse ==
  pc = "done" =>
    /\ bodyAsClaimed
    /\ WrongShape => res.status = 500 /\ Get(res.body, "error") = Str(InvalidModelOutput)
    /\ bodyThrew =>
          failedWith(IF parseBody(req.body).ok THEN TypeError.message ELSE SyntaxError.message)
    /\ generatorThrew => failedWith(ai.thrown.message)
    /\ (RightShape /\ (hasNullIdea \/ \E e \in rawEntries : e.t # "str")) =>
          failedWith(TypeError.message)

\* C12, amended: as C12_OneResponse, but the ideas key goes with status 200
\* for the methods other than OPTIONS, which is answered 200 without a body;
\* the detail of an exception without message is its string form; and the
\* entries of validation and risks that throw are the truthy ones that are
\* no strings, in the handler of src/api/ideas.ts.
C12_TerminalResponses ==
  pc = "done" =>
    /\ res.sent
    /\ req.method = "OPTIONS" => res.status = 200 /\ res.body = Undef
    /\ req.method # "OPTIONS" => bodyAsClaimed /\ res.status \in {200, 400, 405, 500}
    /\ WrongShape => res.status = 500 /\ Get(res.body, "error") = Str(InvalidModelOutput)
    /\ bodyThrew =>
          failedWith(IF parseBody(req.body).ok THEN TypeError.message ELSE SyntaxError.message)
    /\ generatorThrew =>
          failedWith(IF ai.thrown.message # <<>> THEN ai.thrown.message ELSE ai.thrown.name)
    /\ (RightShape /\ (hasNullIdea \/ (variant = "full" /\ \E e \in rawEntries :
                                                          Truthy(e) /\ e.t # "str"))) =>
          failedWith(TypeError.message)

\* an output of three ideas, one of them null, has been answered 500
\* FUNCTION_INVOCATION_FAILED, without an ideas key
C12_NullIdeaFails ==
  /\ RightShape /\ hasNullIdea
  /\ failedWith(TypeError.message)
  /\ "ideas" \notin DOMAIN res.body.v

\* the overlap ratio of the texts a and b is strictly greater than 0.6
collides(a, b) == 10 * overlapRatio(a, b)[1] > 6 * overlapRatio(a, b)[2]

\* the title and the body of the second section of the idea x
inTitle(x) == textOf(Get(x, "title"))

inBody(x) == textOf(Get(At(Get(x, "sections"), 1), "body"))

\* the idea y, whose title is t by now, collides with the earlier idea x,
\* whose title is u
hit(x, u, y, t) == collides(u, t) \/ collides(inBody(x), inBody(y))

\* the title t with the suffix, as the claim has it and as the code has it
appended(t) == t \o AltSuffix

appendedToIdea(t) == (IF t = <<>> THEN <<"I", "d", "e", "a">> ELSE t) \o AltSuffix

\* the titles of the second and the third idea of the list c after the
\* comparisons with the earlier ideas, the suffix being put by sfx
second(c, sfx(_)) ==
  IF hit(c[1], inTitle(c[1]), c[2], inTitle(c[2])) THEN sfx(inTitle(c[2])) ELSE inTitle(c[2])

thirdOnce(c, sfx(_)) ==
  IF hit(c[1], inTitle(c[1]), c[3], inTitle(c[3])) THEN sfx(inTitle(c[3])) ELSE inTitle(c[3])

thirdTwice(c, t2, t3, sfx(_)) == IF hit(c[2], t2, c[3], t3) THEN sfx(t3) ELSE t3

third(c, sfx(_)) == thirdTwice(c, second(c, sfx), thirdOnce(c, sfx), sfx)

\* the list o is the list c but for the titles after the first
sameButTitles(c, o) ==
  /\ Len(o) = Len(c)
  /\ Get(o[1], "title") = Get(c[1], "title")
  /\ \A i \in DOMAIN c : Set(o[i], "title", Get(c[i], "title")) = c[i]

\* the list o is what the list c of three ideas becomes
distinctOf(c, o, sfx(_)) ==
  /\ sameButTitles(c, o)
  /\ Get(o[2], "title") = Str(second(c, sfx))
  /\ Get(o[3], "title") = Str(third(c, sfx))

\* what ensureDistinct receives in the handler of src/api/ideas.ts
clampedIdeas == map(generatedIdeas, clampIdea)

====
